---- MODULE Spec2Model ----
(***************************************************************************)
(* RAGChat backend (backend/main.py, backend/database.py,                  *)
(* backend/models.py): the /upload, /chat, /clear-documents,               *)
(* /chat/history, /documents/status and /conversations handlers over the   *)
(* two PostgreSQL tables document_chunks and chat_history.                 *)
(*                                                                         *)
(* A text is a sequence of one-character strings.  Every handler runs in a *)
(* worker with its own SQLAlchemy session (autocommit=False,               *)
(* autoflush=False); a handler is cut into steps at its SQL statements and *)
(* at its calls of the remote embedding / generation service, which is     *)
(* where requests served by different workers interleave.  A statement     *)
(* reads the committed tables (READ COMMITTED).                            *)
(***************************************************************************)
EXTENDS Integers, Sequences, FiniteSets, TLC

\* ------------------------------------------------------------------ bounds
Workers == {"w1", "w2"}
MaxRequests == 3      \* writing requests (/upload, /chat, /clear-documents) begun
MaxClock == 3         \* the wall clock read by datetime.now() runs 0..MaxClock
MaxStore == 6         \* rows of document_chunks in the retrieval specification

\* ------------------------------------------------------- program constants
TOP_K_CHUNKS == 5
TITLE_LEN == 50
SUPPORTED_EXTENSIONS == {".pdf", ".txt", ".md"}

\* --------------------------------------------------------------- text
IsSpace(c) == c \in {" ", "\n", "\t"}

RECURSIVE LStrip(_)
LStrip(s) == IF s # <<>> /\ IsSpace(Head(s)) THEN LStrip(Tail(s)) ELSE s

RECURSIVE RStrip(_)
RStrip(s) ==
    IF s # <<>> /\ IsSpace(s[Len(s)]) THEN RStrip(SubSeq(s, 1, Len(s) - 1)) ELSE s

\* str.strip()
Strip(s) == RStrip(LStrip(s))

RECURSIVE Join(_, _)
\* sep.join(parts)
Join(sep, parts) ==
    IF parts = <<>> THEN <<>>
    ELSE IF Len(parts) = 1 THEN parts[1]
    ELSE parts[1] \o sep \o Join(sep, Tail(parts))

\* code points of the characters the model's texts are made of
CharCode(c) ==
    CASE c = "\n" -> 10 [] c = " " -> 32 [] c = "-" -> 45 [] c = "." -> 46
      [] c = "1" -> 49 [] c = "2" -> 50 [] c = "3" -> 51 [] c = ":" -> 58
      [] c = "C" -> 67 [] c = "Q" -> 81
      [] c = "a" -> 97 [] c = "b" -> 98 [] c = "c" -> 99 [] c = "e" -> 101
      [] c = "i" -> 105 [] c = "n" -> 110 [] c = "o" -> 111 [] c = "s" -> 115
      [] c = "t" -> 116 [] c = "u" -> 117 [] c = "x" -> 120 [] c = "y" -> 121
      [] c = "z" -> 122
      [] OTHER -> 0

RECURSIVE TextLess(_, _)
\* s < t as the database compares two text values (MIN over a Text column)
TextLess(s, t) ==
    IF t = <<>> THEN FALSE
    ELSE IF s = <<>> THEN TRUE
    ELSE IF CharCode(Head(s)) # CharCode(Head(t)) THEN CharCode(Head(s)) < CharCode(Head(t))
    ELSE TextLess(Tail(s), Tail(t))

Min2(a, b) == IF a <= b THEN a ELSE b

\* ------------------------------------------------------------- inputs
\* a text longer than the title length of /conversations
LongQuery == [i \in 1..(TITLE_LEN + 1) |-> "x"]
Queries == {<<"a">>, LongQuery}

\* ChatRequest.conversation_id as the client sends it; NONE is JSON null
NONE == <<"<None>">>
ClientIds == {NONE, <<>>, <<" ">>, <<" ", "c">>}
\* values of str(uuid.uuid4()), in the order the model draws them
UuidSeq == <<<<"u", "1">>, <<"u", "2">>, <<"u", "3">>, <<"u", "4">>>>
Uuids == {UuidSeq[k] : k \in 1..Len(UuidSeq)}

\* embeddings returned by the embedding model (the dimension stands for 768)
Vectors == {<<0, 0>>, <<3, 0>>, <<0, 4>>}

\* uploaded files: filename, decoded text, and what split_text returns for it
Files ==
    { [filename |-> <<"d", ".txt">>, text |-> <<"a", "b">>, pieces |-> <<<<"a">>, <<"b">>>>],
      [filename |-> <<"d", ".PDF">>, text |-> <<"a">>, pieces |-> <<<<"a">>>>],
      [filename |-> <<"d", ".txt">>, text |-> <<>>, pieces |-> <<>>],
      [filename |-> <<"d", ".md">>, text |-> <<" ", "\n">>, pieces |-> <<>>],
      [filename |-> <<"d", ".docx">>, text |-> <<"a">>, pieces |-> <<<<"a">>>>] }

\* fragment streams of generate_content_stream (chunk.text may be empty)
Streams == { <<<<"y">>, <<>>, <<"z">>>> }

\* ------------------------------------------------------------- state
VARIABLES
    chunks,       \* committed rows of document_chunks: [id, filename, content, embedding]
    turns,        \* committed rows of chat_history: [id, conversation_id, role, content, created_at]
    nextChunkId,  \* serial of document_chunks.id
    nextTurnId,   \* serial of chat_history.id
    now,          \* the wall clock datetime.now(timezone.utc) reads
    issued,       \* the uuid4 values drawn so far
    exchanges,    \* the /chat calls that returned 200, in commit order
    nreq,         \* writing requests begun
    pc,           \* per worker: where its handler stands
    req,          \* per worker: the request being served
    loc,          \* per worker: the handler's local variables
    sess,         \* per worker: its SQLAlchemy session (the open transaction)
    resp          \* per worker: the response of the handler, once it has one

vars == <<chunks, turns, nextChunkId, nextTurnId, now, issued, exchanges, nreq,
          pc, req, loc, sess, resp>>

db == <<chunks, turns, nextChunkId, nextTurnId>>

NoFile == [filename |-> <<"", "">>, text |-> <<>>, pieces |-> <<>>]
NoReq == [kind |-> "none", query |-> <<>>, conversation_id |-> <<>>, file |-> NoFile]
NoLoc ==
    [conversation_id |-> <<>>, past_messages |-> <<>>, query_embedding |-> <<>>,
     relevant_chunks |-> <<>>, context |-> <<>>, contents |-> <<>>,
     stream |-> <<>>, response_text |-> <<>>, i |-> 0]
\* SessionLocal(): nothing pending, no transaction open
NoSess == [new |-> <<>>, flushed |-> {}, delChunks |-> {}, delTurns |-> {}]
NoResp == [status |-> 0, body |-> <<>>]

Init ==
    /\ chunks = {}
    /\ turns = {}
    /\ nextChunkId = 1
    /\ nextTurnId = 1
    /\ now = 0
    /\ issued = {}
    /\ exchanges = <<>>
    /\ nreq = 0
    /\ pc = [w \in Workers |-> "idle"]
    /\ req = [w \in Workers |-> NoReq]
    /\ loc = [w \in Workers |-> NoLoc]
    /\ sess = [w \in Workers |-> NoSess]
    /\ resp = [w \in Workers |-> NoResp]

\* the handler of worker w ends with this response; the session stays as it is
\* until get_db closes it
Respond(w, status, body) ==
    /\ pc' = [pc EXCEPT ![w] = "done"]
    /\ resp' = [resp EXCEPT ![w] = [status |-> status, body |-> body]]

\* time passes between two reads of the clock; the clock is read by the INSERTs of
\* ChatFlush alone, so the model lets it advance where a read can follow
Tick ==
    /\ now < MaxClock
    /\ \E w \in Workers : pc[w] = "chat_flush"
    /\ now' = now + 1
    /\ UNCHANGED <<db, issued, exchanges, nreq, pc, req, loc, sess, resp>>

\* get_db: finally db.close(); whatever the session holds uncommitted is dropped
Finish(w) ==
    /\ pc[w] = "done"
    /\ pc' = [pc EXCEPT ![w] = "idle"]
    /\ req' = [req EXCEPT ![w] = NoReq]
    /\ loc' = [loc EXCEPT ![w] = NoLoc]
    /\ sess' = [sess EXCEPT ![w] = NoSess]
    /\ resp' = [resp EXCEPT ![w] = NoResp]
    /\ UNCHANGED <<db, now, issued, exchanges, nreq>>

\* --------------------------------------------------------------- /upload
\* str.lower() on the extensions of Files
Lower(ext) == IF ext = ".PDF" THEN ".pdf" ELSE ext

\* extract_text_from_file: the status it raises, 0 when it returns the text
ExtractStatus(file) ==
    IF Lower(file.filename[2]) \notin SUPPORTED_EXTENSIONS THEN 422 ELSE 0

\* upload_document up to the first embedding call
UploadBegin(w, file) ==
    /\ pc[w] = "idle"
    /\ nreq < MaxRequests
    /\ nreq' = nreq + 1
    /\ req' = [req EXCEPT ![w] = [NoReq EXCEPT !.kind = "upload", !.file = file]]
    /\ IF ExtractStatus(file) # 0
         THEN /\ Respond(w, ExtractStatus(file), "unsupported")
              /\ UNCHANGED loc
       ELSE IF Strip(file.text) = <<>>
         THEN /\ Respond(w, 400, "empty")
              /\ UNCHANGED loc
       ELSE /\ pc' = [pc EXCEPT ![w] = IF file.pieces = <<>> THEN "up_commit" ELSE "up_embed"]
            /\ loc' = [loc EXCEPT ![w].i = 1]
            /\ UNCHANGED resp
    /\ UNCHANGED <<db, now, issued, exchanges, sess>>

\* one turn of the loop: embed_content succeeded, db.add(DocumentChunk(...))
UploadEmbed(w, v) ==
    /\ pc[w] = "up_embed"
    /\ sess' = [sess EXCEPT ![w].new =
                  Append(@, [filename |-> req[w].file.filename,
                             content |-> req[w].file.pieces[loc[w].i],
                             embedding |-> v])]
    /\ loc' = [loc EXCEPT ![w].i = @ + 1]
    /\ pc' = [pc EXCEPT ![w] =
                IF loc[w].i < Len(req[w].file.pieces) THEN "up_embed" ELSE "up_commit"]
    /\ UNCHANGED <<db, now, issued, exchanges, nreq, req, resp>>

\* rows the flush of the pending DocumentChunk objects inserts
ChunkRows(new, first) ==
    { [id |-> first + k - 1, filename |-> new[k].filename,
       content |-> new[k].content, embedding |-> new[k].embedding] : k \in 1..Len(new) }

\* db.commit() of the upload and its response
UploadCommit(w) ==
    /\ pc[w] = "up_commit"
    /\ chunks' = chunks \cup ChunkRows(sess[w].new, nextChunkId)
    /\ nextChunkId' = nextChunkId + Len(sess[w].new)
    /\ sess' = [sess EXCEPT ![w] = NoSess]
    /\ Respond(w, 200, [filename |-> req[w].file.filename,
                        chunks_created |-> Len(req[w].file.pieces)])
    /\ UNCHANGED <<turns, nextTurnId, now, issued, exchanges, nreq, req, loc>>

\* the failure path committing what the loop had added instead of rolling back
UploadFailKeepsAdded(w) ==
    /\ pc[w] \in {"up_embed", "up_commit"}
    /\ chunks' = chunks \cup ChunkRows(sess[w].new, nextChunkId)
    /\ nextChunkId' = nextChunkId + Len(sess[w].new)
    /\ sess' = [sess EXCEPT ![w] = NoSess]
    /\ Respond(w, 500, "Failed to process document")
    /\ UNCHANGED <<turns, nextTurnId, now, issued, exchanges, nreq, req, loc>>

\* except Exception: db.rollback(), 500 (embed_content or the commit raised)
UploadFail(w) ==
    /\ pc[w] \in {"up_embed", "up_commit"}
    /\ sess' = [sess EXCEPT ![w] = NoSess]
    /\ Respond(w, 500, "Failed to process document")
    /\ UNCHANGED <<db, now, issued, exchanges, nreq, req, loc>>

\* ----------------------------------------------------------------- /chat
\* the id taken as sent, without strip()
UnstrippedId(cid) == IF cid = NONE \/ cid = <<>> THEN <<>> ELSE cid

\* request.conversation_id.strip() if request.conversation_id else ""
StrippedId(cid) == IF cid = NONE \/ cid = <<>> THEN <<>> ELSE Strip(cid)

\* the ids conversation_id can hold after lines 121-123: the stripped value, or a
\* uuid4 never drawn before when that is empty
ResolvedIds(cid) ==
    IF StrippedId(cid) # <<>> THEN {StrippedId(cid)}
    ELSE {UuidSeq[k] : k \in {j \in 1..Len(UuidSeq) :
                                 /\ UuidSeq[j] \notin issued
                                 /\ \A h \in 1..(j - 1) : UuidSeq[h] \in issued}}

RECURSIVE OrderedByCreatedAt(_)
\* ORDER BY created_at ASC over the rows S: every order the sort key allows
OrderedByCreatedAt(S) ==
    IF S = {} THEN {<<>>}
    ELSE UNION { { <<r>> \o s : s \in OrderedByCreatedAt(S \ {r}) } :
                 r \in {x \in S : \A o \in S : x.created_at <= o.created_at} }

\* db.query(ChatHistory).filter(conversation_id == cid).order_by(created_at.asc()).all()
HistoryRows(cid) == OrderedByCreatedAt({t \in turns : t.conversation_id = cid})

ISqrt(n) == CHOOSE r \in 0..n : r * r <= n /\ (r + 1) * (r + 1) > n

\* pgvector's l2_distance on the vectors of the model (all distances are integers)
L2Distance(a, b) ==
    ISqrt((a[1] - b[1]) * (a[1] - b[1]) + (a[2] - b[2]) * (a[2] - b[2]))

RECURSIVE FarthestRows(_, _, _)
\* the read with the sort direction reversed
FarthestRows(S, q, k) ==
    IF S = {} \/ k = 0 THEN {<<>>}
    ELSE UNION { { <<r>> \o s : s \in FarthestRows(S \ {r}, q, k - 1) } :
                 r \in {x \in S : \A o \in S :
                            L2Distance(x.embedding, q) >= L2Distance(o.embedding, q)} }

RECURSIVE NearestRows(_, _, _)
\* ORDER BY embedding <-> q LIMIT k over the rows S: every result the key allows
NearestRows(S, q, k) ==
    IF S = {} \/ k = 0 THEN {<<>>}
    ELSE UNION { { <<r>> \o s : s \in NearestRows(S \ {r}, q, k - 1) } :
                 r \in {x \in S : \A o \in S :
                            L2Distance(x.embedding, q) <= L2Distance(o.embedding, q)} }

SEPARATOR == <<"\n", "-", "-", "-", "\n">>

\* "\n---\n".join(chunk.content for chunk in relevant_chunks)
Context(rows) == Join(SEPARATOR, [k \in 1..Len(rows) |-> rows[k].content])

\* f"Context:\n{context}\n\nQuestion: {request.query}"
Prompt(context, query) ==
    <<"C", "o", "n", "t", "e", "x", "t", ":", "\n">> \o context
      \o <<"\n", "\n", "Q", "u", "e", "s", "t", "i", "o", "n", ":", " ">> \o query

\* the contents list handed to generate_content_stream
Contents(past, prompt) ==
    [k \in 1..Len(past) |-> [role |-> past[k].role, text |-> past[k].content]]
      \o <<[role |-> "user", text |-> prompt]>>

RECURSIVE ResponseText(_)
\* response_text += chunk.text for every fragment with a non-empty text
ResponseText(stream) ==
    IF stream = <<>> THEN <<>> ELSE Head(stream) \o ResponseText(Tail(stream))

\* chat, line 115: the count gate
ChatBegin(w, query, cid) ==
    /\ pc[w] = "idle"
    /\ nreq < MaxRequests
    /\ nreq' = nreq + 1
    /\ req' = [req EXCEPT ![w] = [NoReq EXCEPT !.kind = "chat", !.query = query,
                                               !.conversation_id = cid]]
    /\ IF Cardinality(chunks) = 0
         THEN Respond(w, 400, "No documents found")
         ELSE /\ pc' = [pc EXCEPT ![w] = "chat_history"]
              /\ UNCHANGED resp
    /\ UNCHANGED <<db, now, issued, exchanges, loc, sess>>

\* lines 121-128: resolve conversation_id and read its history
ChatHistoryRead(w) ==
    /\ pc[w] = "chat_history"
    /\ \E id \in ResolvedIds(req[w].conversation_id) :
         /\ issued' = IF id \in Uuids THEN issued \cup {id} ELSE issued
         /\ \E past \in HistoryRows(id) :
              loc' = [loc EXCEPT ![w].conversation_id = id, ![w].past_messages = past]
    /\ pc' = [pc EXCEPT ![w] = "chat_embed"]
    /\ UNCHANGED <<db, now, exchanges, nreq, req, sess, resp>>

\* lines 131-135: embed_content(request.query) returned
ChatEmbed(w, v) ==
    /\ pc[w] = "chat_embed"
    /\ loc' = [loc EXCEPT ![w].query_embedding = v]
    /\ pc' = [pc EXCEPT ![w] = "chat_nearest"]
    /\ UNCHANGED <<db, now, issued, exchanges, nreq, req, sess, resp>>

\* lines 137-149: the nearest-neighbour read, the context and the model input
ChatNearest(w) ==
    /\ pc[w] = "chat_nearest"
    /\ \E rows \in NearestRows(chunks, loc[w].query_embedding, TOP_K_CHUNKS) :
         loc' = [loc EXCEPT ![w].relevant_chunks = rows,
                            ![w].context = Context(rows),
                            ![w].contents = Contents(loc[w].past_messages,
                                                     Prompt(Context(rows), req[w].query))]
    /\ pc' = [pc EXCEPT ![w] = "chat_generate"]
    /\ UNCHANGED <<db, now, issued, exchanges, nreq, req, sess, resp>>

\* the user turn added with the context-augmented prompt as its content
ChatGeneratePersistsPrompt(w, stream) ==
    /\ pc[w] = "chat_generate"
    /\ now < MaxClock
    /\ loc' = [loc EXCEPT ![w].stream = stream,
                           ![w].response_text = ResponseText(stream)]
    /\ sess' = [sess EXCEPT ![w].new =
                  <<[conversation_id |-> loc[w].conversation_id, role |-> "user",
                     content |-> loc[w].contents[Len(loc[w].contents)].text],
                    [conversation_id |-> loc[w].conversation_id, role |-> "model",
                     content |-> ResponseText(stream)]>>]
    /\ now' = now + 1
    /\ pc' = [pc EXCEPT ![w] = "chat_flush"]
    /\ UNCHANGED <<db, issued, exchanges, nreq, req, resp>>

\* lines 152-166: the stream is consumed, then db.add of the two turns; the call
\* of the generation model lasts longer than one tick of the clock
ChatGenerate(w, stream) ==
    /\ pc[w] = "chat_generate"
    /\ now < MaxClock
    /\ loc' = [loc EXCEPT ![w].stream = stream,
                           ![w].response_text = ResponseText(stream)]
    /\ sess' = [sess EXCEPT ![w].new =
                  <<[conversation_id |-> loc[w].conversation_id, role |-> "user",
                     content |-> req[w].query],
                    [conversation_id |-> loc[w].conversation_id, role |-> "model",
                     content |-> ResponseText(stream)]>>]
    /\ now' = now + 1
    /\ pc' = [pc EXCEPT ![w] = "chat_flush"]
    /\ UNCHANGED <<db, issued, exchanges, nreq, req, resp>>

\* db.commit(), the flush: INSERT of the next pending turn; created_at takes its
\* default, datetime.now(timezone.utc)
ChatFlush(w) ==
    /\ pc[w] = "chat_flush"
    /\ LET o == Head(sess[w].new)
           row == [id |-> nextTurnId, conversation_id |-> o.conversation_id,
                   role |-> o.role, content |-> o.content, created_at |-> now]
       IN  sess' = [sess EXCEPT ![w].new = Tail(@), ![w].flushed = @ \cup {row}]
    /\ nextTurnId' = nextTurnId + 1
    /\ pc' = [pc EXCEPT ![w] = IF Len(sess[w].new) > 1 THEN "chat_flush" ELSE "chat_commit"]
    /\ UNCHANGED <<chunks, turns, nextChunkId, now, issued, exchanges, nreq, req, loc, resp>>

\* db.commit(), the COMMIT, and the response
ChatCommit(w) ==
    /\ pc[w] = "chat_commit"
    /\ turns' = turns \cup sess[w].flushed
    /\ exchanges' = Append(exchanges,
                           [conversation_id |-> loc[w].conversation_id,
                            query |-> req[w].query, answer |-> loc[w].response_text,
                            ids |-> {r.id : r \in sess[w].flushed}])
    /\ sess' = [sess EXCEPT ![w] = NoSess]
    /\ Respond(w, 200, [answer |-> loc[w].response_text,
                        conversation_id |-> loc[w].conversation_id])
    /\ UNCHANGED <<chunks, nextChunkId, nextTurnId, now, issued, nreq, req, loc>>

\* a chat that had stored its user turn before the call that raised
ChatFailKeepsUserTurn(w) ==
    /\ pc[w] \in {"chat_embed", "chat_nearest", "chat_generate"}
    /\ turns' = turns \cup {[id |-> nextTurnId, conversation_id |-> loc[w].conversation_id,
                              role |-> "user", content |-> req[w].query, created_at |-> now]}
    /\ nextTurnId' = nextTurnId + 1
    /\ Respond(w, 500, "Internal Server Error")
    /\ UNCHANGED <<chunks, nextChunkId, now, issued, exchanges, nreq, req, loc, sess>>

\* embed_content, the nearest-neighbour read or generate_content_stream raised:
\* nothing catches it, the request answers 500
ChatFail(w) ==
    /\ pc[w] \in {"chat_embed", "chat_nearest", "chat_generate"}
    /\ Respond(w, 500, "Internal Server Error")
    /\ UNCHANGED <<db, now, issued, exchanges, nreq, req, loc, sess>>

\* ------------------------------------------------------ /clear-documents
Ids(rows) == {r.id : r \in rows}

\* a DELETE waits while another open transaction has deleted one of its rows
ChunksLocked(w) == \E v \in Workers \ {w} : sess[v].delChunks \cap Ids(chunks) # {}
TurnsLocked(w) == \E v \in Workers \ {w} : sess[v].delTurns \cap Ids(turns) # {}

\* clear_documents, line 175: db.query(DocumentChunk).delete()
ClearBegin(w) ==
    /\ pc[w] = "idle"
    /\ nreq < MaxRequests
    /\ ~ChunksLocked(w)
    /\ nreq' = nreq + 1
    /\ req' = [req EXCEPT ![w] = [NoReq EXCEPT !.kind = "clear"]]
    /\ sess' = [sess EXCEPT ![w].delChunks = Ids(chunks)]
    /\ pc' = [pc EXCEPT ![w] = "clear_history"]
    /\ UNCHANGED <<db, now, issued, exchanges, loc, resp>>

\* line 176: db.query(ChatHistory).delete()
ClearHistory(w) ==
    /\ pc[w] = "clear_history"
    /\ ~TurnsLocked(w)
    /\ sess' = [sess EXCEPT ![w].delTurns = Ids(turns)]
    /\ pc' = [pc EXCEPT ![w] = "clear_commit"]
    /\ UNCHANGED <<db, now, issued, exchanges, nreq, req, loc, resp>>

\* line 177: db.commit(); both deletions become visible at once
ClearCommit(w) ==
    /\ pc[w] = "clear_commit"
    /\ chunks' = {c \in chunks : c.id \notin sess[w].delChunks}
    /\ turns' = {t \in turns : t.id \notin sess[w].delTurns}
    /\ exchanges' = SelectSeq(exchanges, LAMBDA e : e.ids \cap sess[w].delTurns = {})
    /\ Respond(w, 200, "success")
    /\ UNCHANGED <<nextChunkId, nextTurnId, now, issued, nreq, req, loc, sess>>

\* the failure path without the rollback of the first DELETE
ClearFailKeepsChunkDelete(w) ==
    /\ pc[w] \in {"clear_history", "clear_commit"}
    /\ chunks' = {c \in chunks : c.id \notin sess[w].delChunks}
    /\ sess' = [sess EXCEPT ![w] = NoSess]
    /\ Respond(w, 500, "error")
    /\ UNCHANGED <<turns, nextChunkId, nextTurnId, now, issued, exchanges, nreq, req, loc>>

\* except Exception: db.rollback(), 500
ClearFail(w) ==
    /\ pc[w] \in {"clear_history", "clear_commit"}
    /\ sess' = [sess EXCEPT ![w] = NoSess]
    /\ Respond(w, 500, "error")
    /\ UNCHANGED <<db, now, issued, exchanges, nreq, req, loc>>

\* ---------------------------------------------------------------- reads
\* [{"role": msg.role, "content": msg.content} for msg in messages]
HistoryBody(rows) == [k \in 1..Len(rows) |-> [role |-> rows[k].role, content |-> rows[k].content]]

\* get_chat_history
GetChatHistory(w, cid) ==
    /\ pc[w] = "idle"
    /\ req' = [req EXCEPT ![w] = [NoReq EXCEPT !.kind = "history", !.conversation_id = cid]]
    /\ \E rows \in HistoryRows(cid) : Respond(w, 200, HistoryBody(rows))
    /\ UNCHANGED <<db, now, issued, exchanges, nreq, loc, sess>>

\* get_document_status: first() is any row of the table, or None
GetDocumentStatus(w) ==
    /\ pc[w] = "idle"
    /\ req' = [req EXCEPT ![w] = [NoReq EXCEPT !.kind = "status"]]
    /\ IF chunks = {}
         THEN Respond(w, 200, [has_documents |-> FALSE, filename |-> NONE])
         ELSE \E c \in chunks :
                Respond(w, 200, [has_documents |-> TRUE, filename |-> c.filename])
    /\ UNCHANGED <<db, now, issued, exchanges, nreq, loc, sess>>

SetMax(S) == CHOOSE x \in S : \A y \in S : y <= x
SetMin(S) == CHOOSE x \in S : \A y \in S : x <= y

\* the rows /conversations aggregates: filter(ChatHistory.role == "user")
UserTurns(cid) == {t \in turns : t.conversation_id = cid /\ t.role = "user"}
AllTurns(cid) == {t \in turns : t.conversation_id = cid}

\* func.min(ChatHistory.content): the least content of the group as text
MinContent(rows) ==
    CHOOSE m \in {t.content : t \in rows} :
        \A o \in {t.content : t \in rows} : ~TextLess(o, m)

\* the sort key of /conversations: func.max(ChatHistory.created_at) of the group
LatestOfAnyTurn(cid) == SetMax({t.created_at : t \in AllTurns(cid)})
LastActivity(cid) == SetMax({t.created_at : t \in UserTurns(cid)})

\* (c.first_message[:50] + "...") if len(c.first_message) > 50 else c.first_message
Title(m) ==
    IF Len(m) > TITLE_LEN THEN SubSeq(m, 1, TITLE_LEN) \o <<".", ".", ".">> ELSE m

\* one result row per conversation_id that has a user turn
ConversationRow(cid) ==
    [id |-> cid, title |-> Title(MinContent(UserTurns(cid))),
     created_at |-> SetMin({t.created_at : t \in UserTurns(cid)})]

RECURSIVE OrderedByLastActivityDesc(_)
\* ORDER BY max(created_at) DESC over the groups S: every order the key allows
OrderedByLastActivityDesc(S) ==
    IF S = {} THEN {<<>>}
    ELSE UNION { { <<ConversationRow(c)>> \o s : s \in OrderedByLastActivityDesc(S \ {c}) } :
                 c \in {x \in S : \A o \in S : LastActivity(x) >= LastActivity(o)} }

\* list_conversations
ListConversations(w) ==
    /\ pc[w] = "idle"
    /\ req' = [req EXCEPT ![w] = [NoReq EXCEPT !.kind = "conversations"]]
    /\ \E body \in OrderedByLastActivityDesc({t.conversation_id : t \in {u \in turns : u.role = "user"}}) :
         Respond(w, 200, body)
    /\ UNCHANGED <<db, now, issued, exchanges, nreq, loc, sess>>

\* ------------------------------------------------------- specifications
\* the ids a client can send: its own, or one a response gave it
SentIds(own) == own \cup issued

\* what worker w can do next, on inputs drawn from in
Step(w, in) ==
    \/ \E f \in in.files : UploadBegin(w, f)
    \/ \E v \in in.vectors : UploadEmbed(w, v)
    \/ UploadCommit(w)
    \/ UploadFail(w)
    \/ \E q \in in.queries, cid \in SentIds(in.ids) : ChatBegin(w, q, cid)
    \/ ChatHistoryRead(w)
    \/ \E v \in in.vectors : ChatEmbed(w, v)
    \/ ChatNearest(w)
    \/ \E stream \in in.streams : ChatGenerate(w, stream)
    \/ ChatFlush(w)
    \/ ChatCommit(w)
    \/ ChatFail(w)
    \/ ClearBegin(w)
    \/ ClearHistory(w)
    \/ ClearCommit(w)
    \/ ClearFail(w)
    \/ \E cid \in SentIds(in.paths) : GetChatHistory(w, cid)
    \/ GetDocumentStatus(w)
    \/ ListConversations(w)
    \/ Finish(w)

\* what worker w can do next when two workers serve requests at once
ConcurrentStep(w, in) ==
    \/ \E f \in in.files : UploadBegin(w, f)
    \/ \E v \in in.vectors : UploadEmbed(w, v)
    \/ UploadCommit(w)
    \/ \E q \in in.queries, cid \in SentIds(in.ids) : ChatBegin(w, q, cid)
    \/ ChatHistoryRead(w)
    \/ \E v \in in.vectors : ChatEmbed(w, v)
    \/ ChatNearest(w)
    \/ \E stream \in in.streams : ChatGenerate(w, stream)
    \/ ChatFlush(w)
    \/ ChatCommit(w)
    \/ ChatFail(w)
    \/ ClearBegin(w)
    \/ ClearHistory(w)
    \/ ClearCommit(w)
    \/ ListConversations(w)
    \/ Finish(w)

ConcurrentInputs ==
    [files |-> {f \in Files : Len(f.pieces) = 1 /\ f.filename[2] = ".PDF"},
     vectors |-> {<<0, 0>>},
     queries |-> {<<"a">>},
     ids |-> {<<>>},
     paths |-> {},
     streams |-> Streams]

Next == Tick \/ \E w \in Workers : ConcurrentStep(w, ConcurrentInputs)

Spec == Init /\ [][Next]_vars

\* requests served one after the other by a single worker
SequentialInputs ==
    [files |-> Files, vectors |-> {<<0, 0>>}, queries |-> Queries,
     ids |-> ClientIds, paths |-> {<<"c">>, <<" ", "c">>}, streams |-> Streams]

NextSeq == Tick \/ Step("w1", SequentialInputs)

SpecSeq == Init /\ [][NextSeq]_vars

\* one chat's retrieval over a store that earlier uploads left behind
Digits == <<"1", "2", "3", "4", "5", "6", "7", "8", "9">>

StoredChunks(n, e) ==
    { [id |-> k, filename |-> <<"d", ".txt">>, content |-> <<Digits[k]>>,
       embedding |-> e[k]] : k \in 1..n }

InitNearest ==
    /\ \E n \in 0..MaxStore : \E e \in [1..n -> Vectors] :
         /\ chunks = StoredChunks(n, e)
         /\ nextChunkId = n + 1
    /\ turns = {}
    /\ nextTurnId = 1
    /\ now = 0
    /\ issued = {}
    /\ exchanges = <<>>
    /\ nreq = 0
    /\ pc = [w \in Workers |-> "idle"]
    /\ req = [w \in Workers |-> NoReq]
    /\ loc = [w \in Workers |-> NoLoc]
    /\ sess = [w \in Workers |-> NoSess]
    /\ resp = [w \in Workers |-> NoResp]

NextNearest ==
    \/ ChatBegin("w1", <<"a">>, <<"c">>) /\ nreq = 0
    \/ ChatHistoryRead("w1")
    \/ \E v \in Vectors : ChatEmbed("w1", v)
    \/ ChatNearest("w1")

SpecNearest == InitNearest /\ [][NextNearest]_vars

\* ---------------------------------------------------------------- claims
\* squared Euclidean distance
SqDist(a, b) == (a[1] - b[1]) * (a[1] - b[1]) + (a[2] - b[2]) * (a[2] - b[2])

RECURSIVE JoinedNearestFirst(_)
JoinedNearestFirst(rows) ==
    IF Len(rows) = 0 THEN <<>>
    ELSE IF Len(rows) = 1 THEN rows[1].content
    ELSE JoinedNearestFirst(SubSeq(rows, 1, Len(rows) - 1))
           \o <<"\n", "-", "-", "-", "\n">> \o rows[Len(rows)].content

\* rows are min(K, n) distinct rows of S, nearest to q first, and no row of S left
\* out is strictly closer to q than a row taken
IsNearestFirst(rows, S, q) ==
    /\ Len(rows) = (IF Cardinality(S) < TOP_K_CHUNKS THEN Cardinality(S) ELSE TOP_K_CHUNKS)
    /\ \A k \in 1..Len(rows) : rows[k] \in S
    /\ \A j, k \in 1..Len(rows) : j < k =>
         /\ rows[j] # rows[k]
         /\ SqDist(rows[j].embedding, q) <= SqDist(rows[k].embedding, q)
    /\ \A c \in S : (\A k \in 1..Len(rows) : rows[k] # c) =>
         \A k \in 1..Len(rows) : SqDist(rows[k].embedding, q) <= SqDist(c.embedding, q)

\* C8: once a chat that passed the gate has done its nearest-neighbour read, the
\* retrieved chunks are the min(5, n) stored chunks nearest to the query embedding,
\* nearest first, and the context is their contents joined by "\n---\n" in that order
C8_NearestFirstContext ==
    \A w \in Workers : pc[w] = "chat_generate" =>
        /\ IsNearestFirst(loc[w].relevant_chunks, chunks, loc[w].query_embedding)
        /\ loc[w].context = JoinedNearestFirst(loc[w].relevant_chunks)

\* a read over more than K chunks that leaves a strictly farther chunk out
C8_Witness ==
    /\ pc["w1"] = "chat_generate"
    /\ Cardinality(chunks) > TOP_K_CHUNKS
    /\ Len(loc["w1"].relevant_chunks) = TOP_K_CHUNKS
    /\ SqDist(loc["w1"].relevant_chunks[1].embedding, loc["w1"].query_embedding)
         < SqDist(loc["w1"].relevant_chunks[TOP_K_CHUNKS].embedding, loc["w1"].query_embedding)
    /\ \E c \in chunks :
         SqDist(c.embedding, loc["w1"].query_embedding)
           > SqDist(loc["w1"].relevant_chunks[TOP_K_CHUNKS].embedding, loc["w1"].query_embedding)

RECURSIVE ExpectedHistory(_, _)
\* [user q1, model a1, ..., user qn, model an] of the successful chats ex on cid
ExpectedHistory(ex, cid) ==
    IF ex = <<>> THEN <<>>
    ELSE (IF Head(ex).conversation_id = cid
            THEN <<[role |-> "user", content |-> Head(ex).query],
                   [role |-> "model", content |-> Head(ex).answer]>>
            ELSE <<>>) \o ExpectedHistory(Tail(ex), cid)

\* C3: after n sequential successful chats on a conversation_id,
\* /chat/history/{conversation_id} returns exactly [user q1, model a1, ..., user qn,
\* model an] in that order, and an empty list for an id without turns
C3_HistoryInCallOrder ==
    \A w \in Workers : (pc[w] = "done" /\ req[w].kind = "history") =>
        resp[w].body = ExpectedHistory(exchanges, req[w].conversation_id)

\* C5: every row of /conversations has as title the content of the conversation's
\* earliest user turn, whole up to 50 characters and else its first 50 characters
\* followed by "...", and as created_at that turn's timestamp
C5_TitleIsEarliestUserTurn ==
    \A w \in Workers : (pc[w] = "done" /\ req[w].kind = "conversations") =>
        \A k \in 1..Len(resp[w].body) :
            LET c == resp[w].body[k]
                U == {t \in turns : t.conversation_id = c.id /\ t.role = "user"}
            IN  \E t \in U :
                  /\ \A o \in U : t.created_at <= o.created_at
                  /\ c.created_at = t.created_at
                  /\ c.title = (IF Len(t.content) <= 50 THEN t.content
                                ELSE SubSeq(t.content, 1, 50) \o <<".", ".", ".">>)

\* a conversation_id that is absent, empty or whitespace-only
IsBlankId(cid) == cid = NONE \/ \A k \in 1..Len(cid) : cid[k] \in {" ", "\n", "\t"}

\* the chat of worker w has resolved its conversation_id and has not failed
ChatResolved(w) ==
    /\ req[w].kind = "chat"
    /\ \/ pc[w] \in {"chat_embed", "chat_nearest", "chat_generate", "chat_flush", "chat_commit"}
       \/ pc[w] = "done" /\ resp[w].status = 200

\* the two rows the last successful chat committed
LastExchangeRows == {t \in turns : t.id \in exchanges[Len(exchanges)].ids}

\* C7 as stated: a non-blank conversation_id is returned as it was supplied
C7_SuppliedIdReturnedAsSent ==
    \A w \in Workers :
        (req[w].kind = "chat" /\ pc[w] = "done" /\ resp[w].status = 200
           /\ ~IsBlankId(req[w].conversation_id))
        => resp[w].body.conversation_id = req[w].conversation_id

\* C7, amended: a chat uses one conversation_id for its history read, its two
\* persisted turns and its response: the supplied value with leading and trailing
\* whitespace removed when that is non-blank, and otherwise a fresh identifier that
\* no stored turn carries, so that the exchange starts with an empty history
C7_ResolvedIdUsedThroughout ==
    \A w \in Workers : ChatResolved(w) =>
        LET id == loc[w].conversation_id
            sent == req[w].conversation_id
        IN  /\ ~IsBlankId(sent) => id = Strip(sent)
            /\ IsBlankId(sent) =>
                 /\ id \in Uuids
                 /\ loc[w].past_messages = <<>>
                 /\ pc[w] # "done" => \A t \in turns : t.conversation_id # id
            /\ \A k \in 1..Len(loc[w].past_messages) :
                 loc[w].past_messages[k].conversation_id = id
            /\ pc[w] # "done" =>
                 {loc[w].past_messages[k] : k \in 1..Len(loc[w].past_messages)}
                   = {t \in turns : t.conversation_id = id}
            /\ \A k \in 1..Len(sess[w].new) : sess[w].new[k].conversation_id = id
            /\ \A r \in sess[w].flushed : r.conversation_id = id
            /\ pc[w] = "done" =>
                 /\ resp[w].body.conversation_id = id
                 /\ Cardinality(LastExchangeRows) = 2
                 /\ \A r \in LastExchangeRows : r.conversation_id = id

\* a second chat on a padded id has read the history stored under the stripped id
C7_Witness ==
    /\ pc["w1"] = "done" /\ req["w1"].kind = "chat" /\ resp["w1"].status = 200
    /\ req["w1"].conversation_id = <<" ", "c">>
    /\ resp["w1"].body.conversation_id = <<"c">>
    /\ Len(loc["w1"].past_messages) = 2

\* the chat of worker w has built the input of the generation model
ChatBuilt(w) ==
    /\ req[w].kind = "chat"
    /\ \/ pc[w] \in {"chat_generate", "chat_flush", "chat_commit"}
       \/ pc[w] = "done" /\ resp[w].status = 200

LastText(w) == loc[w].contents[Len(loc[w].contents)].text

Moves(w, kind) ==
    /\ req'[w].kind = kind
    /\ <<pc[w], loc[w], sess[w]>> # <<pc'[w], loc'[w], sess'[w]>>

\* get_db closes the session of worker w after a request of this kind
Closes(w, kind) == req[w].kind = kind /\ pc[w] = "done" /\ pc'[w] = "idle"

\* worker w takes a step of its handler for a request of this kind that ends it
Ends(w, kind) == req'[w].kind = kind /\ pc[w] # "done" /\ pc'[w] = "done"

\* C2: an upload that does not succeed leaves the chunk store as it was: an
\* unsupported extension answers 422, an empty or whitespace-only text 400, a
\* failure while a chunk is embedded or stored 500, and no chunk of it is persisted
C2_FailedUploadPersistsNothing ==
    [][\A w \in Workers :
         /\ (pc[w] = "idle" /\ req'[w].kind = "upload") =>
              LET f == req'[w].file
                  supported == f.filename[2] \in {".pdf", ".txt", ".md", ".PDF"}
                  blank == \A k \in 1..Len(f.text) : f.text[k] \in {" ", "\n", "\t"}
              IN  /\ ~supported => pc'[w] = "done" /\ resp'[w].status = 422
                  /\ (supported /\ blank) => pc'[w] = "done" /\ resp'[w].status = 400
                  /\ (supported /\ ~blank) => pc'[w] # "done"
         /\ (Ends(w, "upload") /\ pc[w] \in {"up_embed", "up_commit"}
               /\ resp'[w].status # 200) => resp'[w].status = 500
         /\ (Ends(w, "upload") /\ resp'[w].status # 200) =>
              /\ resp'[w].status \in {400, 422, 500}
              /\ chunks' = chunks
         /\ (Closes(w, "upload") /\ resp[w].status # 200) => chunks' = chunks
         /\ (Moves(w, "upload") /\ chunks' # chunks) =>
              /\ resp'[w].status = 200
              /\ Cardinality(chunks') = Cardinality(chunks) + Len(req[w].file.pieces)
      ]_vars

\* the embedding of the second of two chunks failed after the first was added
C2_Witness ==
    /\ pc["w1"] = "done" /\ req["w1"].kind = "upload" /\ resp["w1"].status = 500
    /\ Len(req["w1"].file.pieces) = 2
    /\ loc["w1"].i = 2
    /\ chunks = {}

\* C4: /clear-documents is all-or-nothing over both stores: after a successful
\* call both are empty, so that /documents/status reports has_documents false and
\* /chat/history/{id} an empty list; after a failed call (500) both are unchanged;
\* no step leaves one store cleared and the other not
C4_ClearAllOrNothing ==
    [][\A w \in Workers :
         /\ (Ends(w, "clear") /\ resp'[w].status = 200) => (chunks' = {} /\ turns' = {})
         /\ (Ends(w, "clear") /\ resp'[w].status # 200) =>
              (resp'[w].status = 500 /\ chunks' = chunks /\ turns' = turns)
         /\ (Moves(w, "clear") /\ pc'[w] # "done") => (chunks' = chunks /\ turns' = turns)
         /\ Closes(w, "clear") => (chunks' = chunks /\ turns' = turns)
         /\ (~(chunks \subseteq chunks') \/ ~(turns \subseteq turns')) =>
              (chunks' = {} /\ turns' = {})
         /\ (pc[w] = "idle" /\ req'[w].kind = "status") =>
              resp'[w].body.has_documents = (chunks # {})
         /\ (pc[w] = "idle" /\ req'[w].kind = "history" /\ turns = {}) =>
              resp'[w].body = <<>>
      ]_vars

\* a successful clear that deleted stored chunks and stored turns
C4_Witness ==
    /\ pc["w1"] = "done" /\ req["w1"].kind = "clear" /\ resp["w1"].status = 200
    /\ sess["w1"].delChunks # {} /\ sess["w1"].delTurns # {}
    /\ chunks = {} /\ turns = {}

\* every stored turn is one of the two turns of a chat that returned 200, and the
\* two turns of such a chat are stored together
TurnsInPairs ==
    /\ \A t \in turns : \E k \in 1..Len(exchanges) : t.id \in exchanges[k].ids
    /\ \A k \in 1..Len(exchanges) :
         LET rows == {t \in turns : t.id \in exchanges[k].ids}
         IN  {[conversation_id |-> r.conversation_id, role |-> r.role, content |-> r.content] :
                r \in rows}
               = {[conversation_id |-> exchanges[k].conversation_id, role |-> "user",
                   content |-> exchanges[k].query],
                  [conversation_id |-> exchanges[k].conversation_id, role |-> "model",
                   content |-> exchanges[k].answer]}

\* C1: a chat that does not succeed persists no turn: with an empty chunk store it
\* is refused with 400 before any embedding or generation call; when the query
\* embedding, the nearest-neighbour read or the generation fails, the conversation
\* store stays what it was; the two turns of an exchange become visible together,
\* after the generation succeeded, or not at all
C1_FailedChatPersistsNothing ==
    [][\A w \in Workers :
         /\ (pc[w] = "idle" /\ req'[w].kind = "chat" /\ chunks = {}) =>
              /\ pc'[w] = "done" /\ resp'[w].status = 400
              /\ loc'[w].query_embedding = <<>> /\ loc'[w].contents = <<>>
              /\ loc'[w].stream = <<>>
         /\ (Ends(w, "chat") /\ resp'[w].status # 200) =>
              /\ turns' = turns
              /\ sess'[w].new = <<>> /\ sess'[w].flushed = {}
         /\ (Closes(w, "chat") /\ resp[w].status # 200) => turns' = turns
         /\ (Moves(w, "chat") /\ pc'[w] # "done") => turns' = turns
         /\ (Ends(w, "chat") /\ resp'[w].status = 200) =>
              /\ loc[w].stream # <<>>
              /\ Cardinality(turns') = Cardinality(turns) + 2
         /\ TurnsInPairs'
      ]_vars

\* the generation of a chat failed after its retrieval, with turns of an earlier
\* exchange stored
C1_Witness ==
    \E w \in Workers :
        /\ pc[w] = "done" /\ req[w].kind = "chat" /\ resp[w].status = 500
        /\ loc[w].contents # <<>>
        /\ Cardinality(turns) = 2

\* worker w answers /conversations in this step
Lists(w) == pc[w] = "idle" /\ pc'[w] = "done" /\ req'[w].kind = "conversations"

\* the position of conversation cid in a /conversations body
Position(body, cid) == CHOOSE k \in 1..Len(body) : body[k].id = cid

ConversationIds == {t.conversation_id : t \in turns}

\* C6 as stated: /conversations lists every conversation once, the one whose
\* latest turn (of either role) is later before the other
C6_OrderedByLatestTurn ==
    [][\A w \in Workers : Lists(w) =>
         /\ {resp'[w].body[k].id : k \in 1..Len(resp'[w].body)} = ConversationIds
         /\ Len(resp'[w].body) = Cardinality(ConversationIds)
         /\ \A a, b \in ConversationIds :
              LatestOfAnyTurn(a) > LatestOfAnyTurn(b) =>
                Position(resp'[w].body, a) < Position(resp'[w].body, b)
      ]_vars

\* the latest created_at among the user turns of conversation cid
LatestUserTurn(cid) ==
    CHOOSE x \in {t.created_at : t \in {u \in turns : u.conversation_id = cid /\ u.role = "user"}} :
        \A t \in turns : (t.conversation_id = cid /\ t.role = "user") => t.created_at <= x

\* C6, amended: /conversations lists every conversation once, the one whose latest
\* user turn is later before the other
C6_OrderedByLatestUserTurn ==
    [][\A w \in Workers : Lists(w) =>
         /\ {resp'[w].body[k].id : k \in 1..Len(resp'[w].body)} = ConversationIds
         /\ Len(resp'[w].body) = Cardinality(ConversationIds)
         /\ \A a, b \in ConversationIds :
              LatestUserTurn(a) > LatestUserTurn(b) =>
                Position(resp'[w].body, a) < Position(resp'[w].body, b)
      ]_vars

\* /conversations has listed two conversations whose latest user turns differ
C6_Witness ==
    \E w \in Workers :
        /\ pc[w] = "done" /\ req[w].kind = "conversations"
        /\ Len(resp[w].body) = 2
        /\ \E a, b \in ConversationIds : LatestUserTurn(a) > LatestUserTurn(b)

\* C10: under every interleaving the count gate holds for the whole chat: no chat
\* calls the generation model with a context built from zero chunks, and no chat
\* commits its turns while the chunk store is empty
C10_GateHoldsForWholeChat ==
    [][\A w \in Workers :
         /\ (pc[w] = "chat_generate" /\ pc'[w] = "chat_flush") =>
              loc[w].relevant_chunks # <<>>
         /\ (pc[w] = "chat_commit" /\ pc'[w] = "done") => chunks # {}
      ]_vars

====
